---- MODULE Spec2Model ----
(***************************************************************************)
(* The three example programs of the repository:                           *)
(*   examples/full-stack-demo/api.py     Flask API over os.environ          *)
(*   examples/feature-test/app.py        http.server app with /crash        *)
(*   examples/full-stack-demo/worker.py  heartbeat loop                     *)
(* One process runs one of them (variable program).  Python strings whose   *)
(* characters the code inspects (environment keys and values, request       *)
(* paths, bodies) are sequences of one-character strings.                   *)
(***************************************************************************)
EXTENDS Integers, Sequences, FiniteSets, TLC

VARIABLES program, env, pc, path, resp, out, err, alive, exitCode, iter, elapsed

vars == <<program, env, pc, path, resp, out, err, alive, exitCode, iter, elapsed>>

(***************************************************************************)
(* Bounds of the model.                                                    *)
(***************************************************************************)
\* most entries of a configuration snapshot
MaxEntries == 2
\* most requests the feature-test app accepts in one run
MaxRequests == 2
\* most sleep/heartbeat cycles of the worker in one run
MaxCycles == 2
\* time advances in steps of this many seconds
TickStep == 10
\* time.sleep may return this many seconds late at most
MaxOversleep == 10

(***************************************************************************)
(* String literals of the sources.                                         *)
(***************************************************************************)
Lowercase ==
    <<"a", "b", "c", "d", "e", "f", "g", "h", "i", "j", "k", "l", "m", "n", "o", "p", "q", "r", "s", "t", "u", "v", "w", "x", "y", "z">>
Uppercase ==
    <<"A", "B", "C", "D", "E", "F", "G", "H", "I", "J", "K", "L", "M", "N", "O", "P", "Q", "R", "S", "T", "U", "V", "W", "X", "Y", "Z">>

\* configuration keys read by the programs
DATABASE_URL ==
    <<"D", "A", "T", "A", "B", "A", "S", "E", "_", "U", "R", "L">>
REDIS_URL ==
    <<"R", "E", "D", "I", "S", "_", "U", "R", "L">>
RABBITMQ_URL ==
    <<"R", "A", "B", "B", "I", "T", "M", "Q", "_", "U", "R", "L">>
STRIPE_SECRET_KEY ==
    <<"S", "T", "R", "I", "P", "E", "_", "S", "E", "C", "R", "E", "T", "_", "K", "E", "Y">>
SENDGRID_API_KEY ==
    <<"S", "E", "N", "D", "G", "R", "I", "D", "_", "A", "P", "I", "_", "K", "E", "Y">>
TWILIO_ACCOUNT_SID ==
    <<"T", "W", "I", "L", "I", "O", "_", "A", "C", "C", "O", "U", "N", "T", "_", "S", "I", "D">>
AWS_ACCESS_KEY_ID ==
    <<"A", "W", "S", "_", "A", "C", "C", "E", "S", "S", "_", "K", "E", "Y", "_", "I", "D">>
GOOGLE_CLIENT_ID ==
    <<"G", "O", "O", "G", "L", "E", "_", "C", "L", "I", "E", "N", "T", "_", "I", "D">>
GITHUB_CLIENT_ID ==
    <<"G", "I", "T", "H", "U", "B", "_", "C", "L", "I", "E", "N", "T", "_", "I", "D">>
SENTRY_DSN ==
    <<"S", "E", "N", "T", "R", "Y", "_", "D", "S", "N">>
OPENAI_API_KEY ==
    <<"O", "P", "E", "N", "A", "I", "_", "A", "P", "I", "_", "K", "E", "Y">>
HOSTNAME ==
    <<"H", "O", "S", "T", "N", "A", "M", "E">>
SECRET_KEY ==
    <<"S", "E", "C", "R", "E", "T", "_", "K", "E", "Y">>
APP_ENV ==
    <<"A", "P", "P", "_", "E", "N", "V">>

\* literals of show_env and the check routes
W_KEY ==
    <<"K", "E", "Y">>
W_SECRET ==
    <<"S", "E", "C", "R", "E", "T">>
W_PASSWORD ==
    <<"P", "A", "S", "S", "W", "O", "R", "D">>
W_TOKEN ==
    <<"T", "O", "K", "E", "N">>
MaskMarker ==
    <<"*", "*", "*", "*">>
NotConfigured ==
    <<"n", "o", "t", " ", "c", "o", "n", "f", "i", "g", "u", "r", "e", "d">>
S_postgres ==
    <<"p", "o", "s", "t", "g", "r", "e", "s">>
S_redis ==
    <<"r", "e", "d", "i", "s">>
S_amqp ==
    <<"a", "m", "q", "p">>

\* routes of the API
P_env ==
    <<"/", "e", "n", "v">>
P_db_check ==
    <<"/", "d", "b", "-", "c", "h", "e", "c", "k">>
P_cache_check ==
    <<"/", "c", "a", "c", "h", "e", "-", "c", "h", "e", "c", "k">>
P_queue_check ==
    <<"/", "q", "u", "e", "u", "e", "-", "c", "h", "e", "c", "k">>
P_services ==
    <<"/", "s", "e", "r", "v", "i", "c", "e", "s">>

\* literals of the feature-test app
P_health ==
    <<"/", "h", "e", "a", "l", "t", "h">>
P_crash ==
    <<"/", "c", "r", "a", "s", "h">>
S_OK ==
    <<"O", "K">>
S_unknown ==
    <<"u", "n", "k", "n", "o", "w", "n">>
S_NOT_SET ==
    <<"N", "O", "T", "_", "S", "E", "T">>
L_greeting ==
    <<"U+1F680", " ", "H", "e", "l", "l", "o", " ", "f", "r", "o", "m", " ", "A", "r", "c", "a", "n", "e", "!", "\n">>
L_hostname ==
    <<"H", "o", "s", "t", "n", "a", "m", "e", ":", " ">>
L_secret ==
    <<"S", "e", "c", "r", "e", "t", ":", " ">>

(***************************************************************************)
(* Inputs: other keys a snapshot may hold, the values, the request paths.  *)
(***************************************************************************)
api_token ==
    <<"a", "p", "i", "_", "t", "o", "k", "e", "n">>
V_empty ==
    <<>>
V_abcd ==
    <<"a", "b", "c", "d">>
V_abcde ==
    <<"a", "b", "c", "d", "e">>
V_postgres ==
    <<"p", "o", "s", "t", "g", "r", "e", "s", "q", "l", ":", "/", "/", "d", "b">>
V_redis ==
    <<"r", "e", "d", "i", "s">>
V_amqp ==
    <<"a", "m", "q", "p", ":", "/", "/", "m", "q">>
V_mysql ==
    <<"m", "y", "s", "q", "l", ":", "/", "/", "d", "b">>
V_host ==
    <<"w", "e", "b", "-", "1">>
V_prod ==
    <<"p", "r", "o", "d", "u", "c", "t", "i", "o", "n">>
P_root ==
    <<"/">>
P_health_query ==
    <<"/", "h", "e", "a", "l", "t", "h", "?", "x", "=", "1">>
P_health_slash ==
    <<"/", "h", "e", "a", "l", "t", "h", "/">>
P_HEALTH_upper ==
    <<"/", "H", "E", "A", "L", "T", "H">>
P_crash_query ==
    <<"/", "c", "r", "a", "s", "h", "?", "n", "o", "w">>

ApiKeys ==
    {DATABASE_URL, REDIS_URL, RABBITMQ_URL, STRIPE_SECRET_KEY, SENDGRID_API_KEY,
     TWILIO_ACCOUNT_SID, AWS_ACCESS_KEY_ID, GOOGLE_CLIENT_ID, GITHUB_CLIENT_ID,
     SENTRY_DSN, OPENAI_API_KEY, api_token}

\* the empty string, 4 and 5 characters, and values with a scheme
ApiValues ==
    {V_empty, V_abcd, V_redis, V_postgres, V_amqp}

\* the values a key of the API's snapshot may have: any of them for the
\* three URL keys, the short ones for the other keys
ApiValuesOf(key) ==
    IF key \in {DATABASE_URL, REDIS_URL, RABBITMQ_URL}
    THEN ApiValues
    ELSE {V_empty, V_abcd, V_redis}

AppKeys ==
    {HOSTNAME, SECRET_KEY, DATABASE_URL}

AppValues ==
    {V_empty, V_host, V_abcde}

WorkerKeys ==
    {APP_ENV, DATABASE_URL, REDIS_URL, RABBITMQ_URL}

WorkerValues ==
    {V_empty, V_prod, V_mysql}

AppPaths ==
    {P_health, P_crash, P_root, P_health_query, P_health_slash, P_HEALTH_upper,
     P_crash_query}

\* every mapping from at most MaxEntries of the keys to the values
Snapshots(keys, values) ==
    UNION {[K -> values] : K \in {S \in SUBSET keys : Cardinality(S) <= MaxEntries}}

ApiSnapshots ==
    {e \in Snapshots(ApiKeys, ApiValues) : \A key \in DOMAIN e : e[key] \in ApiValuesOf(key)}

(***************************************************************************)
(* Python string and os.environ operations.                                *)
(***************************************************************************)
\* str.upper on one character
UpperChar(c) ==
    IF \E i \in 1..Len(Lowercase) : Lowercase[i] = c
    THEN Uppercase[CHOOSE i \in 1..Len(Lowercase) : Lowercase[i] = c]
    ELSE c

\* str.upper
upper(s) ==
    [i \in 1..Len(s) |-> UpperChar(s[i])]

\* sub in s
Contains(sub, s) ==
    \E i \in 0..(Len(s) - Len(sub)) : SubSeq(s, i + 1, i + Len(sub)) = sub

\* s[:n]
Prefix(s, n) ==
    SubSeq(s, 1, IF Len(s) < n THEN Len(s) ELSE n)

\* os.environ.get(key, default)
environ_get(e, key, default) ==
    IF key \in DOMAIN e THEN e[key] ELSE default

\* os.environ.get(key): the value, or None; {} stands for None, {v} for v
environ_get_opt(e, key) ==
    IF key \in DOMAIN e THEN {e[key]} ELSE {}

\* bool(x) of None or a string
bool(x) ==
    \E v \in x : Len(v) > 0

(***************************************************************************)
(* full-stack-demo/api.py: the handlers, as functions of the environment.  *)
(***************************************************************************)
NoResponse ==
    [status |-> 0, kind |-> "none", body |-> <<>>]

Text(status, body) ==
    [status |-> status, kind |-> "text", body |-> body]

\* flask.jsonify(obj): status 200
jsonify(obj) ==
    [status |-> 200, kind |-> "json", body |-> obj]

health ==
    Text(200, S_OK)

IsSecretKey_CaseSensitive(key) ==
    \E secret \in {W_KEY, W_SECRET, W_PASSWORD, W_TOKEN} : Contains(secret, key)

\* any(secret in key.upper() for secret in [...])
IsSecretKey(key) ==
    \E secret \in {W_KEY, W_SECRET, W_PASSWORD, W_TOKEN} : Contains(secret, upper(key))

\* value[:4] + '****' if len(value) > 4 else '****'
MaskValue(value) ==
    IF Len(value) > 4 THEN Prefix(value, 4) \o MaskMarker ELSE MaskMarker

show_env(e) ==
    jsonify([key \in DOMAIN e |->
                IF IsSecretKey(key) THEN MaskValue(e[key]) ELSE e[key]])

db_check_NonEmpty(e) ==
    jsonify([database |->
                IF Len(environ_get(e, DATABASE_URL, V_empty)) > 0
                THEN "configured" ELSE "not configured"])

db_check(e) ==
    jsonify([database |->
                IF Contains(S_postgres, environ_get(e, DATABASE_URL, NotConfigured))
                THEN "configured" ELSE "not configured"])

cache_check_DefaultUrl(e) ==
    jsonify([redis |->
                IF Contains(S_redis, environ_get(e, REDIS_URL, V_redis))
                THEN "configured" ELSE "not configured"])

cache_check(e) ==
    jsonify([redis |->
                IF Contains(S_redis, environ_get(e, REDIS_URL, NotConfigured))
                THEN "configured" ELSE "not configured"])

queue_check(e) ==
    jsonify([rabbitmq |->
                IF Contains(S_amqp, environ_get(e, RABBITMQ_URL, NotConfigured))
                THEN "configured" ELSE "not configured"])

\* the dependencies of /services and the key of each
ServiceKey ==
    [database |-> DATABASE_URL, redis |-> REDIS_URL, rabbitmq |-> RABBITMQ_URL,
     stripe |-> STRIPE_SECRET_KEY, sendgrid |-> SENDGRID_API_KEY,
     twilio |-> TWILIO_ACCOUNT_SID, aws |-> AWS_ACCESS_KEY_ID,
     google_oauth |-> GOOGLE_CLIENT_ID, github_oauth |-> GITHUB_CLIENT_ID,
     sentry |-> SENTRY_DSN, openai |-> OPENAI_API_KEY]

services_IsPresent(e) ==
    jsonify([name \in DOMAIN ServiceKey |-> ServiceKey[name] \in DOMAIN e])

services(e) ==
    jsonify([name \in DOMAIN ServiceKey |-> bool(environ_get_opt(e, ServiceKey[name]))])

\* the routes of the API that are modelled; the body of / carries time.time()
\* and is left out
ApiRoutes ==
    {P_health, P_env, P_db_check, P_cache_check, P_queue_check, P_services}

\* the view function Flask's exact-match routing picks
view(route, e) ==
    CASE route = P_health -> health
      [] route = P_env -> show_env(e)
      [] route = P_db_check -> db_check(e)
      [] route = P_cache_check -> cache_check(e)
      [] route = P_queue_check -> queue_check(e)
      [] route = P_services -> services(e)

(***************************************************************************)
(* State.                                                                  *)
(*   program   which script the process runs                               *)
(*   env       os.environ, never written                                   *)
(*   pc        where the process is                                        *)
(*   path      the path of the request being served, or served last        *)
(*   resp      what has been sent to that request's client                 *)
(*   out, err  the lines written to stdout and stderr                      *)
(*   alive     the process has not exited; exitCode its exit status        *)
(*   iter      requests accepted (app), loop iterations begun (worker)     *)
(*   elapsed   seconds since the worker last called time.sleep             *)
(***************************************************************************)
Line(kind, text, t) ==
    [line |-> kind, text |-> text, t |-> t]

Init ==
    /\ program \in {"api", "app", "worker"}
    /\ env \in CASE program = "api" -> ApiSnapshots
                 [] program = "app" -> Snapshots(AppKeys, AppValues)
                 [] program = "worker" -> Snapshots(WorkerKeys, WorkerValues)
    /\ pc = CASE program = "api" -> "serving"
              [] program = "app" -> "idle"
              [] program = "worker" -> "startup"
    /\ path = <<>>
    /\ resp = NoResponse
    /\ out = IF program = "app" THEN <<Line("starting", <<>>, 0)>> ELSE <<>>
    /\ err = <<>>
    /\ alive = TRUE
    /\ exitCode = 0
    /\ iter = 0
    /\ elapsed = 0

(***************************************************************************)
(* api.py: one request, served by the view of its route.                   *)
(***************************************************************************)
ApiRequest(route) ==
    /\ program = "api"
    /\ alive
    /\ path' = route
    /\ resp' = view(route, env)
    /\ UNCHANGED <<program, env, pc, out, err, alive, exitCode, iter, elapsed>>

(***************************************************************************)
(* feature-test/app.py: HTTPServer.serve_forever serves one request at a   *)
(* time; Handler.do_GET runs in the order of its statements.               *)
(***************************************************************************)
\* the line do_GET prints for the request
RequestLine ==
    Line("request", path, 0)

Accept_Dispatching(p) ==
    /\ program = "app"
    /\ alive
    /\ pc = "idle"
    /\ iter < MaxRequests
    /\ path' = p
    /\ resp' = NoResponse
    /\ iter' = iter + 1
    /\ pc' = "dispatch"
    /\ UNCHANGED <<program, env, out, err, alive, exitCode, elapsed>>

\* serve_forever hands the next GET to do_GET
Accept(p) ==
    /\ program = "app"
    /\ alive
    /\ pc = "idle"
    /\ iter < MaxRequests
    /\ path' = p
    /\ resp' = NoResponse
    /\ iter' = iter + 1
    /\ pc' = "do_GET"
    /\ UNCHANGED <<program, env, out, err, alive, exitCode, elapsed>>

\* print(...Request: {self.path}); sys.stdout.flush()
LogRequest ==
    /\ program = "app"
    /\ pc = "do_GET"
    /\ out' = Append(out, RequestLine)
    /\ pc' = "dispatch"
    /\ UNCHANGED <<program, env, path, resp, err, alive, exitCode, iter, elapsed>>

\* the print or the flush raises: the exception leaves do_GET, the server
\* reports it on stderr and closes the connection; the line may or may not
\* have reached stdout
LogWriteFails ==
    /\ program = "app"
    /\ pc = "do_GET"
    /\ out' \in {out, Append(out, RequestLine)}
    /\ err' = Append(err, Line("traceback", path, 0))
    /\ pc' = "idle"
    /\ UNCHANGED <<program, env, path, resp, alive, exitCode, iter, elapsed>>

IsHealthPath_Prefix(p) ==
    Prefix(p, Len(P_health)) = P_health

\* self.path == '/health'
IsHealthPath(p) ==
    p = P_health

\* self.path == '/crash'
IsCrashPath(p) ==
    p = P_crash

\* the f-string of the fallback body
FallbackBody(e) ==
    L_greeting
        \o L_hostname \o environ_get(e, HOSTNAME, S_unknown) \o <<"\n">>
        \o L_secret \o environ_get(e, SECRET_KEY, S_NOT_SET) \o <<"\n">>

Health_FallsThrough ==
    /\ program = "app"
    /\ pc = "dispatch"
    /\ IsHealthPath(path)
    /\ resp' = Text(200, S_OK \o FallbackBody(env))
    /\ pc' = "idle"
    /\ UNCHANGED <<program, env, path, out, err, alive, exitCode, iter, elapsed>>

\* send_response(200); end_headers(); wfile.write(b"OK"); return
Health ==
    /\ program = "app"
    /\ pc = "dispatch"
    /\ IsHealthPath(path)
    /\ resp' = Text(200, S_OK)
    /\ pc' = "idle"
    /\ UNCHANGED <<program, env, path, out, err, alive, exitCode, iter, elapsed>>

Crash_Survives ==
    /\ program = "app"
    /\ pc = "dispatch"
    /\ ~IsHealthPath(path)
    /\ IsCrashPath(path)
    /\ err' = Append(err, Line("crashing", <<>>, 0))
    /\ pc' = "idle"
    /\ UNCHANGED <<program, env, path, resp, out, alive, exitCode, iter, elapsed>>

\* print("CRASHING NOW...", file=sys.stderr); sys.exit(1): SystemExit leaves
\* do_GET and serve_forever, and the interpreter exits with status 1
Crash ==
    /\ program = "app"
    /\ pc = "dispatch"
    /\ ~IsHealthPath(path)
    /\ IsCrashPath(path)
    /\ err' = Append(err, Line("crashing", <<>>, 0))
    /\ alive' = FALSE
    /\ exitCode' = 1
    /\ pc' = "exited"
    /\ UNCHANGED <<program, env, path, resp, out, iter, elapsed>>

\* send_response(200); end_headers(); wfile.write(body.encode())
Fallback ==
    /\ program = "app"
    /\ pc = "dispatch"
    /\ ~IsHealthPath(path)
    /\ ~IsCrashPath(path)
    /\ resp' = Text(200, FallbackBody(env))
    /\ pc' = "idle"
    /\ UNCHANGED <<program, env, path, out, err, alive, exitCode, iter, elapsed>>

(***************************************************************************)
(* full-stack-demo/worker.py.                                              *)
(***************************************************************************)
\* time.sleep(30)
SleepInterval == 30

\* the check mark or the cross of a startup line
Mark(x) ==
    IF bool(x) THEN <<"yes">> ELSE <<"no">>

\* the five startup prints and the flush
WorkerStart ==
    /\ program = "worker"
    /\ pc = "startup"
    /\ out' = << Line("starting", <<>>, 0),
                 Line("environment", environ_get(env, APP_ENV, S_unknown), 0),
                 Line("database", Mark(environ_get_opt(env, DATABASE_URL)), 0),
                 Line("redis", Mark(environ_get_opt(env, REDIS_URL)), 0),
                 Line("rabbitmq", Mark(environ_get_opt(env, RABBITMQ_URL)), 0) >>
    /\ pc' = "loop"
    /\ UNCHANGED <<program, env, path, resp, err, alive, exitCode, iter, elapsed>>

\* print(Waiting for jobs...); flush; time.sleep(30) is entered
Waiting ==
    /\ program = "worker"
    /\ pc = "loop"
    /\ iter < MaxCycles
    /\ out' = Append(out, Line("waiting", <<>>, 0))
    /\ iter' = iter + 1
    /\ elapsed' = 0
    /\ pc' = "sleeping"
    /\ UNCHANGED <<program, env, path, resp, err, alive, exitCode>>

\* time passes while the worker sleeps
Tick ==
    /\ program = "worker"
    /\ pc = "sleeping"
    /\ elapsed < SleepInterval + MaxOversleep
    /\ elapsed' = elapsed + TickStep
    /\ UNCHANGED <<program, env, pc, path, resp, out, err, alive, exitCode, iter>>

SleepReturns_Early ==
    elapsed >= SleepInterval - TickStep

\* time.sleep(30) returns once the interval has passed
SleepReturns ==
    elapsed >= SleepInterval

\* sleep returns; print(Heartbeat OK); flush; back to the top of the loop
Heartbeat ==
    /\ program = "worker"
    /\ pc = "sleeping"
    /\ SleepReturns
    /\ out' = Append(out, Line("heartbeat", <<>>, elapsed))
    /\ pc' = "loop"
    /\ UNCHANGED <<program, env, path, resp, err, alive, exitCode, iter, elapsed>>

(***************************************************************************)
(* Specifications.                                                         *)
(***************************************************************************)
NextApi ==
    \E route \in ApiRoutes : ApiRequest(route)

NextApp ==
    \/ \E p \in AppPaths : Accept(p)
    \/ LogRequest
    \/ Health
    \/ Crash
    \/ Fallback

NextWorker ==
    \/ WorkerStart
    \/ Waiting
    \/ Tick
    \/ Heartbeat

Next ==
    \/ NextApi
    \/ NextApp
    \/ NextWorker

\* the three programs, the log stream working
Spec ==
    Init /\ [][Next]_vars

\* the feature-test app with a log stream whose writes may fail
InitApp ==
    Init /\ program = "app"

NextAppLogFault ==
    \/ NextApp
    \/ LogWriteFails

SpecLogFault ==
    InitApp /\ [][NextAppLogFault]_vars

\* the worker, scheduled and with time passing
InitWorker ==
    Init /\ program = "worker"

SpecWorker ==
    /\ InitWorker
    /\ [][NextWorker]_vars
    /\ WF_vars(WorkerStart)
    /\ WF_vars(Waiting)
    /\ WF_vars(Tick)
    /\ WF_vars(Heartbeat)

(***************************************************************************)
(* The claims.                                                             *)
(***************************************************************************)
SecretWords ==
    {<<"K", "E", "Y">>, <<"S", "E", "C", "R", "E", "T">>,
     <<"P", "A", "S", "S", "W", "O", "R", "D">>, <<"T", "O", "K", "E", "N">>}

\* key holds word at some position, case ignored
HoldsIgnoringCase(key, word) ==
    \E i \in 1..Len(key) :
        /\ i + Len(word) - 1 <= Len(key)
        /\ \A j \in 1..Len(word) : UpperChar(key[i + j - 1]) = word[j]

\* C1: the /env response has exactly the keys of the snapshot; a key holding
\* KEY, SECRET, PASSWORD or TOKEN (case ignored) maps to the first 4
\* characters of its value and "****" when the value is longer than 4, to
\* "****" alone otherwise; any other key maps to its raw value.
C1_EnvMasksSensitiveEntries ==
    (program = "api" /\ path = P_env) =>
        /\ resp.status = 200
        /\ DOMAIN resp.body = DOMAIN env
        /\ \A key \in DOMAIN env :
              LET value == env[key]
                  sensitive == \E word \in SecretWords : HoldsIgnoringCase(key, word)
              IN  resp.body[key] =
                      IF sensitive
                      THEN IF Len(value) > 4
                           THEN <<value[1], value[2], value[3], value[4], "*", "*", "*", "*">>
                           ELSE <<"*", "*", "*", "*">>
                      ELSE value

\* a lower-case sensitive key and a key that is not sensitive, both with a
\* 5-character value, served by /env
C1_Witness ==
    /\ program = "api"
    /\ path = P_env
    /\ DOMAIN env = {api_token, SENTRY_DSN}
    /\ env[api_token] = V_redis
    /\ env[SENTRY_DSN] = V_redis
    /\ resp.body[api_token] = <<"r", "e", "d", "i", "*", "*", "*", "*">>
    /\ resp.body[SENTRY_DSN] = V_redis

\* the raw value of key, or the empty set when the key is absent
Raw(key) ==
    IF key \in DOMAIN env THEN {env[key]} ELSE {}

\* C2: /db-check, /cache-check and /queue-check report "configured" exactly
\* when the raw value of DATABASE_URL, REDIS_URL, RABBITMQ_URL holds
\* "postgres", "redis", "amqp", and "not configured" otherwise, the key
\* being absent included.
C2_ChecksAreSubstringTests ==
    program = "api" =>
        /\ path = P_db_check =>
              resp = [status |-> 200, kind |-> "json", body |->
                        [database |-> IF \E v \in Raw(DATABASE_URL) : Contains(S_postgres, v)
                                      THEN "configured" ELSE "not configured"]]
        /\ path = P_cache_check =>
              resp = [status |-> 200, kind |-> "json", body |->
                        [redis |-> IF \E v \in Raw(REDIS_URL) : Contains(S_redis, v)
                                   THEN "configured" ELSE "not configured"]]
        /\ path = P_queue_check =>
              resp = [status |-> 200, kind |-> "json", body |->
                        [rabbitmq |-> IF \E v \in Raw(RABBITMQ_URL) : Contains(S_amqp, v)
                                      THEN "configured" ELSE "not configured"]]

\* /db-check answered "configured" for a value holding "postgres"
C2_Witness ==
    /\ program = "api"
    /\ path = P_db_check
    /\ Raw(DATABASE_URL) = {V_postgres}
    /\ resp.body.database = "configured"

\* C3: each of the eleven flags of /services is true exactly when the key of
\* its dependency is present with a non-empty value.
C3_ServicesReportNonEmptyKeys ==
    (program = "api" /\ path = P_services) =>
        /\ resp.status = 200
        /\ DOMAIN resp.body =
              {"database", "redis", "rabbitmq", "stripe", "sendgrid", "twilio", "aws",
               "google_oauth", "github_oauth", "sentry", "openai"}
        /\ Cardinality(DOMAIN resp.body) = 11
        /\ \A pair \in {<<"database", DATABASE_URL>>, <<"redis", REDIS_URL>>,
                        <<"rabbitmq", RABBITMQ_URL>>, <<"stripe", STRIPE_SECRET_KEY>>,
                        <<"sendgrid", SENDGRID_API_KEY>>, <<"twilio", TWILIO_ACCOUNT_SID>>,
                        <<"aws", AWS_ACCESS_KEY_ID>>, <<"google_oauth", GOOGLE_CLIENT_ID>>,
                        <<"github_oauth", GITHUB_CLIENT_ID>>, <<"sentry", SENTRY_DSN>>,
                        <<"openai", OPENAI_API_KEY>>} :
              resp.body[pair[1]] = (\E v \in Raw(pair[2]) : v # <<>>)

\* DATABASE_URL set, REDIS_URL set to the empty string, the rest absent
C3_Witness ==
    /\ program = "api"
    /\ path = P_services
    /\ DOMAIN env = {DATABASE_URL, REDIS_URL}
    /\ env[REDIS_URL] = <<>>
    /\ env[DATABASE_URL] = V_abcd
    /\ resp.body["database"]
    /\ ~resp.body["redis"]
    /\ ~resp.body["openai"]

\* the app has finished serving a request
AppServed ==
    program = "app" /\ pc = "idle" /\ iter > 0

\* C4: in both HTTP programs a GET of /health is answered 200 "OK", whatever
\* the snapshot and whatever was served before.
C4_HealthIsOk ==
    ((program = "api" /\ path = P_health) \/ (AppServed /\ path = P_health)) =>
        /\ resp.status = 200
        /\ resp.body = <<"O", "K">>

\* the app answers /health as its second request, under a non-empty snapshot
C4_Witness ==
    /\ AppServed
    /\ iter >= 2
    /\ path = P_health
    /\ out[2].text # P_health
    /\ DOMAIN env # {}
    /\ resp.status = 200

\* C5: a GET of /crash in the app ends the process with a non-zero exit
\* status; nothing is sent to that request, and nothing is served after it.
C5_CrashEndsTheProcess ==
    (program = "app" /\ iter > 0 /\ path = P_crash /\ pc \notin {"do_GET", "dispatch"}) =>
        /\ pc = "exited"
        /\ ~alive
        /\ exitCode # 0
        /\ resp = NoResponse
        /\ ~ENABLED Next

\* /crash served as the second request
C5_Witness ==
    /\ program = "app"
    /\ pc = "exited"
    /\ iter >= 2
    /\ path = P_crash
    /\ exitCode = 1

\* the number of line breaks of a body
LineBreaks(body) ==
    Cardinality({i \in 1..Len(body) : body[i] = "\n"})

\* C6: the app matches the path exactly: a GET of any path other than
\* "/health" and "/crash" (a query string, a trailing slash or another case
\* included) is answered 200 with the three lines of the fallback body: the
\* greeting, HOSTNAME ("unknown" when absent), SECRET_KEY unmasked ("NOT_SET"
\* when absent).
C6_OtherPathsGetTheFallback ==
    (AppServed /\ path # P_health /\ path # P_crash) =>
        /\ resp.status = 200
        /\ resp.kind = "text"
        /\ resp.body =
              L_greeting
              \o L_hostname \o (IF HOSTNAME \in DOMAIN env THEN env[HOSTNAME] ELSE S_unknown)
              \o <<"\n">>
              \o L_secret \o (IF SECRET_KEY \in DOMAIN env THEN env[SECRET_KEY] ELSE S_NOT_SET)
              \o <<"\n">>
        /\ LineBreaks(resp.body) = 3

\* /health with a query string answered by the fallback, the secret in clear
C6_Witness ==
    /\ AppServed
    /\ path = P_health_query
    /\ DOMAIN env = {SECRET_KEY}
    /\ env[SECRET_KEY] = V_abcde
    /\ resp.body = L_greeting \o L_hostname \o S_unknown \o <<"\n">>
                       \o L_secret \o V_abcde \o <<"\n">>

\* C7: the log line of a request (its path) is on stdout before anything is
\* sent to the request and before /crash ends the process; every request the
\* handler has got past its first statements has its line, in order.
C7_LoggedBeforeResponse ==
    (program = "app" /\ (resp.kind # "none" \/ pc \in {"dispatch", "idle", "exited"})) =>
        /\ Len(out) = 1 + iter
        /\ iter > 0 => (out[Len(out)].line = "request" /\ out[Len(out)].text = path)

\* /health then /crash, both logged, in order
C7_Witness ==
    /\ program = "app"
    /\ pc = "exited"
    /\ Len(out) = 3
    /\ out[2] = [line |-> "request", text |-> P_health, t |-> 0]
    /\ out[3] = [line |-> "request", text |-> P_crash, t |-> 0]

\* C8: a request whose log write failed still gets the response it would
\* have got had the write succeeded: every request for a path other than
\* "/crash" that the app has finished serving has the response of its path.
C8_LogFailureKeepsTheResponse ==
    (AppServed /\ path # P_crash) =>
        /\ resp.status = 200
        /\ resp.body = IF path = P_health THEN <<"O", "K">> ELSE FallbackBody(env)

\* the lines of the worker's loop, after the five startup lines
LoopLines ==
    SubSeq(out, 6, Len(out))

C9_Safety ==
    /\ alive
    /\ exitCode = 0
    /\ pc \in {"startup", "loop", "sleeping"}
    /\ \A i \in 1..Len(LoopLines) :
          /\ LoopLines[i].line = IF i % 2 = 1 THEN "waiting" ELSE "heartbeat"
          /\ LoopLines[i].line = "heartbeat" => LoopLines[i].t >= 30
    /\ pc = "sleeping" => Len(LoopLines) % 2 = 1
    /\ pc = "loop" => (Len(out) >= 5 /\ Len(LoopLines) % 2 = 0)

\* C9: the worker never exits; after the startup lines its log alternates
\* "waiting" and "heartbeat" lines, a waiting line first; no heartbeat comes
\* less than 30 seconds after the waiting line before it; every waiting line
\* is followed by a heartbeat, and every heartbeat by the next iteration.
C9_WorkerLoopsForever ==
    /\ []C9_Safety
    /\ (pc = "startup") ~> (pc = "loop")
    /\ \A k \in 1..MaxCycles :
          /\ (Len(LoopLines) >= 2 * k - 1) ~> (Len(LoopLines) >= 2 * k)
          /\ (pc = "loop" /\ iter = k - 1) ~> (pc = "sleeping" /\ iter = k)

\* two full iterations, the second heartbeat after a late wake-up
C9_Witness ==
    /\ program = "worker"
    /\ pc = "loop"
    /\ Len(LoopLines) = 4
    /\ LoopLines[3].line = "waiting"
    /\ LoopLines[4].line = "heartbeat"
    /\ LoopLines[4].t > 30

\* C10: on one snapshot, a check route that reports "configured" has its
\* dependency reported true by /services; not the other way round: a
\* non-empty value without the scheme is true for /services and "not
\* configured" for the check route.
C10_ConfiguredImpliesService ==
    program = "api" =>
        /\ db_check(env).body.database = "configured" => services(env).body["database"]
        /\ cache_check(env).body.redis = "configured" => services(env).body["redis"]
        /\ queue_check(env).body.rabbitmq = "configured" => services(env).body["rabbitmq"]
        /\ path = P_db_check /\ resp.body.database = "configured"
              => services(env).body["database"]
        /\ path = P_cache_check /\ resp.body.redis = "configured"
              => services(env).body["redis"]
        /\ path = P_queue_check /\ resp.body.rabbitmq = "configured"
              => services(env).body["rabbitmq"]
        /\ \E v \in ApiValues :
              LET e == (DATABASE_URL :> v) @@ (REDIS_URL :> v) @@ (RABBITMQ_URL :> v)
              IN  /\ services(e).body["database"]
                  /\ services(e).body["redis"]
                  /\ services(e).body["rabbitmq"]
                  /\ db_check(e).body.database = "not configured"
                  /\ cache_check(e).body.redis = "not configured"
                  /\ queue_check(e).body.rabbitmq = "not configured"

\* /cache-check reports "configured" and /services true for redis, while
\* DATABASE_URL is non-empty without "postgres"
C10_Witness ==
    /\ program = "api"
    /\ path = P_cache_check
    /\ resp.body.redis = "configured"
    /\ services(env).body["redis"]
    /\ DATABASE_URL \in DOMAIN env
    /\ services(env).body["database"]
    /\ db_check(env).body.database = "not configured"
====
